---- MODULE Spec2Model ----
(***************************************************************************)
(* Model of the FLEXPART availability-index builder                        *)
(* (flexpart_app/services/meteo.py, create_available_file) and of the      *)
(* name-to-timestamp parser it contains.                                   *)
(*                                                                         *)
(* File names are strings.  A timestamp is the tuple                       *)
(* <<year, month, day, hour, minute>> (the parser never produces seconds), *)
(* compared lexicographically as datetime objects compare.                 *)
(***************************************************************************)
EXTENDS Integers, Sequences, FiniteSets, TLC

(***************************************************************************)
(* Characters                                                              *)
(***************************************************************************)
Digits == {"0", "1", "2", "3", "4", "5", "6", "7", "8", "9"}

\* int() of one decimal digit
DigitVal ==
    [c \in Digits |->
        CASE c = "0" -> 0 [] c = "1" -> 1 [] c = "2" -> 2 [] c = "3" -> 3
          [] c = "4" -> 4 [] c = "5" -> 5 [] c = "6" -> 6 [] c = "7" -> 7
          [] c = "8" -> 8 [] c = "9" -> 9]

\* str[i-1] of Python, "" past the end
CharAt(s, i) == IF i >= 1 /\ i <= Len(s) THEN SubSeq(s, i, i) ELSE ""

IsDigitAt(s, i) == CharAt(s, i) \in Digits

\* n decimal digits at position pos
DigitsAt(s, pos, n) == \A i \in pos..(pos + n - 1) : IsDigitAt(s, i)

RECURSIVE IntAt(_, _, _)
\* int() of the n digits at position pos
IntAt(s, pos, n) ==
    IF n = 0 THEN 0
    ELSE 10 * IntAt(s, pos, n - 1) + DigitVal[CharAt(s, pos + n - 1)]

(***************************************************************************)
(* datetime.strptime.  Each directive is a regular expression with ordered *)
(* alternatives; the format's expression is matched at the start of the    *)
(* string with backtracking (the first alternative that lets the rest      *)
(* match wins), and the match must then cover the whole string.            *)
(***************************************************************************)
Alt(w, v) == [w |-> w, v |-> v]

When(c, w, v) == IF c THEN <<Alt(w, v)>> ELSE <<>>

\* the alternatives of a directive, in the expression's order, given what is
\* at the position: four digits, two digits, one digit, a space and a digit
\* (each the number read, -1 when the characters are not there)
AltsOf(directive, four, two, one, sp) ==
    CASE directive = "Y" ->          \* \d\d\d\d
            When(four >= 0, 4, four)
      [] directive = "y" ->          \* \d\d
            When(two >= 0, 2, two)
      [] directive = "m" ->          \* 1[0-2]|0[1-9]|[1-9]
            When(two >= 1 /\ two <= 12, 2, two) \o When(one >= 1, 1, one)
      [] directive = "d" ->          \* 3[0-1]|[1-2]\d|0[1-9]|[1-9]| [1-9]
            When(two >= 1 /\ two <= 31, 2, two) \o When(one >= 1, 1, one)
                \o When(sp >= 1, 2, sp)
      [] directive = "H" ->          \* 2[0-3]|[0-1]\d|\d
            When(two >= 0 /\ two <= 23, 2, two) \o When(one >= 0, 1, one)
      [] directive = "M" ->          \* [0-5]\d|\d
            When(two >= 0 /\ two <= 59, 2, two) \o When(one >= 0, 1, one)

\* the number written by the n digits at pos, -1 when they are not n digits
NumberAt(s, pos, n) == IF DigitsAt(s, pos, n) THEN IntAt(s, pos, n) ELSE -1

\* the alternatives of a directive that match at pos
Alts(directive, s, pos) ==
    AltsOf(directive, NumberAt(s, pos, 4), NumberAt(s, pos, 2), NumberAt(s, pos, 1),
           IF CharAt(s, pos) = " " THEN NumberAt(s, pos + 1, 1) ELSE -1)

NoMatch == [found |-> FALSE, end |-> 0, groups |-> <<>>]

\* a match of the rest of the expression, extended by the group before it
Extend(v, rest) ==
    IF rest.found
    THEN [found |-> TRUE, end |-> rest.end, groups |-> <<v>> \o rest.groups]
    ELSE NoMatch

\* a unless it failed, then b
OrMatch(a, b) == IF a.found THEN a ELSE b

RECURSIVE RegexMatch(_, _, _, _)
RECURSIVE TryAlts(_, _, _, _, _)
\* format_regex.match: directives k.. of fmt matched from position pos
RegexMatch(fmt, k, s, pos) ==
    IF k > Len(fmt)
    THEN [found |-> TRUE, end |-> pos - 1, groups |-> <<>>]
    ELSE TryAlts(fmt, k, s, pos, Alts(fmt[k], s, pos))

\* backtracking: the first alternative after which the rest matches
TryAlts(fmt, k, s, pos, alts) ==
    IF alts = <<>> THEN NoMatch
    ELSE OrMatch(Extend(Head(alts).v, RegexMatch(fmt, k + 1, s, pos + Head(alts).w)),
                 TryAlts(fmt, k, s, pos, Tail(alts)))

ValueError == <<>>          \* the call raised ValueError: no timestamp
None == <<>>                \* _parse returned None

IsLeap(year) == year % 4 = 0 /\ (year % 100 # 0 \/ year % 400 = 0)

DaysInMonth(year, month) ==
    CASE month \in {1, 3, 5, 7, 8, 10, 12} -> 31
      [] month \in {4, 6, 9, 11} -> 30
      [] month = 2 -> IF IsLeap(year) THEN 29 ELSE 28

\* the datetime constructor's range checks (MINYEAR 1, MAXYEAR 9999)
ValidDate(year, month, day) ==
    /\ year >= 1 /\ year <= 9999
    /\ month >= 1 /\ month <= 12
    /\ day >= 1 /\ day <= DaysInMonth(year, month)

\* datetime(year, month, day, hour, minute)
MakeDatetime(year, month, day, hour, minute) ==
    IF ValidDate(year, month, day) THEN <<year, month, day, hour, minute>>
    ELSE ValueError

\* %y: values 00..68 are in the century 2000, 69..99 in the century 1900
CenturyOf(yy) == IF yy <= 68 THEN yy + 2000 ELSE yy + 1900

\* the group of a directive, default when the format has no such directive
Field(fmt, groups, directive, default) ==
    IF \E k \in 1..Len(fmt) : fmt[k] = directive
    THEN groups[CHOOSE k \in 1..Len(fmt) : fmt[k] = directive]
    ELSE default

\* the datetime of a match; ValueError without one, or when text remains
FromMatch(fmt, found, length) ==
    IF ~found.found THEN ValueError
    ELSE IF length # found.end THEN ValueError
    ELSE MakeDatetime(
            IF fmt[1] = "y" THEN CenturyOf(found.groups[1]) ELSE found.groups[1],
            Field(fmt, found.groups, "m", 1), Field(fmt, found.groups, "d", 1),
            Field(fmt, found.groups, "H", 0), Field(fmt, found.groups, "M", 0))

\* datetime.strptime(s, fmt) for a format made of the directives in fmt
strptime(s, fmt) == FromMatch(fmt, RegexMatch(fmt, 1, s, 1), Len(s))

\* ts.replace(year=y)
ReplaceYear(ts, y) == MakeDatetime(y, ts[2], ts[3], ts[4], ts[5])

(***************************************************************************)
(* create_available_file._parse                                            *)
(***************************************************************************)
FourDigitFormats ==
    << <<"Y", "m", "d", "H">>, <<"Y", "m", "d">>, <<"Y", "m", "d", "H", "M">> >>

TwoDigitFormats ==
    << <<"y", "m", "d", "H">>, <<"y", "m", "d">>, <<"y", "m", "d", "H", "M">> >>

\* the adjustment of the year after a two-digit-year format matched
WindowYear(ts) ==
    IF ts = ValueError THEN ValueError
    ELSE IF ts[1] < 1950 THEN ReplaceYear(ts, ts[1] + 2000)
    ELSE IF ts[1] < 2000 THEN ReplaceYear(ts, ts[1] + 1900)
    ELSE ts

\* except ValueError: continue
OrElse(ts, next) == IF ts # ValueError THEN ts ELSE next

RECURSIVE TryFour(_, _)
\* the first loop of _parse, from its k-th format on
TryFour(suffix, k) ==
    IF k > Len(FourDigitFormats) THEN ValueError
    ELSE OrElse(strptime(suffix, FourDigitFormats[k]), TryFour(suffix, k + 1))

RECURSIVE TryTwo(_, _)
\* the second loop of _parse, from its k-th format on
TryTwo(suffix, k) ==
    IF k > Len(TwoDigitFormats) THEN ValueError
    ELSE OrElse(WindowYear(strptime(suffix, TwoDigitFormats[k])), TryTwo(suffix, k + 1))

\* name[len(prefix):]
Suffix(prefix, name) == SubSeq(name, Len(prefix) + 1, Len(name))

\* _parse on the suffix
ParseSuffix(suffix) == OrElse(TryFour(suffix, 1), OrElse(TryTwo(suffix, 1), None))

_parse(prefix, name) == ParseSuffix(Suffix(prefix, name))

\* which of the six formats a timestamp comes from, given what each attempt
\* gave: 1..3 when the first loop returned it, 4..6 when the second did, 0
\* when _parse returns None
FormatIndex(four, two) ==
    IF \E k \in 1..3 : four[k] # ValueError
    THEN CHOOSE k \in 1..3 : four[k] # ValueError /\ \A j \in 1..(k - 1) : four[j] = ValueError
    ELSE IF \E k \in 1..3 : two[k] # ValueError
    THEN 3 + (CHOOSE k \in 1..3 : two[k] # ValueError /\ \A j \in 1..(k - 1) : two[j] = ValueError)
    ELSE 0

FirstFormat(suffix) ==
    FormatIndex([k \in 1..3 |-> strptime(suffix, FourDigitFormats[k])],
                [k \in 1..3 |-> WindowYear(strptime(suffix, TwoDigitFormats[k]))])

(***************************************************************************)
(* Strings: ordering, formatting                                           *)
(***************************************************************************)
\* the characters of the modelled names in code-point order
CodePoints == " .0123456789ABCDEFGHIJKLMNOPQRSTUVWXYZ_abcdefghijklmnopqrstuvwxyz"

\* ord(c), up to an order-preserving renumbering
Ord(c) == CHOOSE i \in 1..Len(CodePoints) : CharAt(CodePoints, i) = c

RECURSIVE StrLessFrom(_, _, _)
StrLessFrom(a, b, i) ==
    IF i > Len(a) THEN i <= Len(b)
    ELSE IF i > Len(b) THEN FALSE
    ELSE IF CharAt(a, i) = CharAt(b, i) THEN StrLessFrom(a, b, i + 1)
    ELSE Ord(CharAt(a, i)) < Ord(CharAt(b, i))

\* a < b for str
StrLess(a, b) == StrLessFrom(a, b, 1)

\* name.startswith(prefix): what the pattern f"{prefix}*" matches for a
\* prefix without pattern characters
StartsWith(name, prefix) ==
    Len(prefix) <= Len(name) /\ SubSeq(name, 1, Len(prefix)) = prefix

DigitChar == <<"0", "1", "2", "3", "4", "5", "6", "7", "8", "9">>

RECURSIVE Str(_)
\* str(n) for n >= 0
Str(n) == IF n < 10 THEN DigitChar[n + 1] ELSE Str(n \div 10) \o DigitChar[(n % 10) + 1]

RECURSIVE ZeroPad(_, _)
\* n in decimal, zero-padded on the left to at least width characters
ZeroPad(n, width) ==
    IF Len(Str(n)) >= width THEN Str(n)
    ELSE "0" \o ZeroPad(n, width - 1)

RECURSIVE Spaces(_)
Spaces(n) == IF n <= 0 THEN "" ELSE " " \o Spaces(n - 1)

NameWidth == 30

\* a field of exactly the width: short names filled, long names cut
LeftAlignTruncate(name, width) ==
    IF Len(name) > width THEN SubSeq(name, 1, width)
    ELSE name \o Spaces(width - Len(name))

\* f"{name:<30}": left-aligned, space-filled to the width, never cut
LeftAlign(name, width) == name \o Spaces(width - Len(name))

\* ts.strftime('%Y%m%d'); %Y prints the year without padding
StrfDate(ts) == Str(ts[1]) \o ZeroPad(ts[2], 2) \o ZeroPad(ts[3], 2)

\* ts.strftime('%H%M%S')
StrfTime(ts) == ZeroPad(ts[4], 2) \o ZeroPad(ts[5], 2) \o "00"

(***************************************************************************)
(* datetime comparison                                                     *)
(***************************************************************************)
RECURSIVE TsLessFrom(_, _, _)
TsLessFrom(a, b, i) ==
    IF i > 5 THEN FALSE
    ELSE IF a[i] = b[i] THEN TsLessFrom(a, b, i + 1)
    ELSE a[i] < b[i]

TsLess(a, b) == TsLessFrom(a, b, 1)
TsLeq(a, b) == a = b \/ TsLess(a, b)

(***************************************************************************)
(* Bounds and inputs                                                       *)
(***************************************************************************)
\* at most this many entries besides AVAILABLE in the scanned directory
MaxEntries == 3

AVAILABLE == "AVAILABLE"
ProductDir == "meteo/preprocessed"

\* what the upstream step may leave in the directory
Pool ==
    { [name |-> "EC2024010100", kind |-> "file"],
      [name |-> "EC2024010112", kind |-> "file"],
      [name |-> "EC240101",     kind |-> "file"],
      [name |-> "EC2025010100", kind |-> "file"],
      [name |-> "EC_README",    kind |-> "file"],
      [name |-> "EC.txt",       kind |-> "file"],
      [name |-> "A2024010100",  kind |-> "file"],
      [name |-> "EC2024010106", kind |-> "dir"],
      [name |-> "EC_tmp",       kind |-> "dir"] }

Prefixes == {"EC", "A"}

\* start_time, end_time of a call (end after start)
Windows ==
    { [start |-> <<2024, 1, 1, 0, 0>>, end |-> <<2024, 1, 1, 12, 0>>],
      [start |-> <<2030, 1, 1, 0, 0>>, end |-> <<2030, 1, 2, 0, 0>>] }

Grib == <<"GRIB">>          \* the content of a product file, never read

\* every name the directory can hold
Names == {e.name : e \in Pool} \cup {AVAILABLE}

RECURSIVE ParseTable(_)
\* _parse(name) under each prefix, for the pairs given
ParseTable(pairs) ==
    IF pairs = {} THEN <<>>
    ELSE LET a == CHOOSE x \in pairs : TRUE
         IN  (a :> _parse(a[1], a[2])) @@ ParseTable(pairs \ {a})

\* ts = _parse(item.name), for each prefix and name of the model
ParsedName == ParseTable(Prefixes \X Names)

(***************************************************************************)
(* State                                                                   *)
(***************************************************************************)
VARIABLES
    fs,         \* the scanned directory: name -> [kind, content]
    last,       \* the call just made: its arguments, the directory it found
                \* and its outcome, or Idle
    prev,       \* the outcome of the call before it, when that call had the
                \* same arguments and nothing happened in between, or Idle
    parseIn,    \* the name handed to _parse
    parseOut,   \* what _parse returned for it
    entry,      \* a row handed to the entry formatter and the line it gave
    run         \* the CLI run command: where it is and what it has done

vars == <<fs, last, prev, parseIn, parseOut, entry, run>>

Idle == [kind |-> "idle"]

\* a container that has not been run
NotRun == [ran |-> FALSE, timeout |-> FALSE, returncode |-> 0]

\* the run command before it is invoked
NotStarted ==
    [pc |-> "idle", era5 |-> FALSE, window |-> <<>>, started |-> <<>>, finished |-> <<>>,
     error |-> "none", failedAt |-> "none", extract |-> NotRun, builder |-> "notrun",
     flexpart |-> NotRun, pathnames |-> FALSE, totals |-> FALSE, message |-> FALSE]

(***************************************************************************)
(* create_available_file                                                   *)
(***************************************************************************)
RECURSIVE RankTable(_)
\* for each name given, how many names of the model are less (str order)
RankTable(S) ==
    IF S = {} THEN <<>>
    ELSE LET n == CHOOSE x \in S : TRUE
         IN  (n :> Cardinality({m \in Names : StrLess(m, n)})) @@ RankTable(S \ {n})

NameRank == RankTable(Names)

RECURSIVE SortedNames(_)
\* sorted(...) of a set of names
SortedNames(S) ==
    IF S = {} THEN <<>>
    ELSE LET least == CHOOSE n \in S : \A m \in S : NameRank[n] <= NameRank[m]
         IN  <<least>> \o SortedNames(S \ {least})

\* sorted(product_dir.glob(f"{prefix}*"))
Products(dir, prefix) ==
    SortedNames({n \in DOMAIN dir : StartsWith(n, prefix)})

\* item.is_file()
IsFile(dir, name) == dir[name].kind = "file"

\* (_parse(item.name), item.name) for each product, in the products' order
Rows(products, prefix) ==
    [i \in 1..Len(products) |-> <<ParsedName[<<prefix, products[i]>>], products[i]>>]

\* InWindow with the end of the window left out
InWindowHalfOpen(ts, start, end) == TsLeq(start, ts) /\ TsLess(ts, end)

\* start_time <= ts <= end_time
InWindow(ts, start, end) == TsLeq(start, ts) /\ TsLeq(ts, end)

\* the first loop: (ts, name) of the regular files that parse inside the window
WindowPass(dir, rows, start, end) ==
    LET Keep(row) == /\ IsFile(dir, row[2])
                     /\ row[1] # None
                     /\ InWindow(row[1], start, end)
    IN  SelectSeq(rows, Keep)

\* Unparseable without the is_file test
UnparseableAnyKind(dir, rows) ==
    LET Bad(row) == row[1] = None
        bad == SelectSeq(rows, Bad)
    IN  [i \in 1..Len(bad) |-> bad[i][2]]

\* the first loop: the names of the regular files that do not parse
Unparseable(dir, rows) ==
    LET Bad(row) == IsFile(dir, row[2]) /\ row[1] = None
        bad == SelectSeq(rows, Bad)
    IN  [i \in 1..Len(bad) |-> bad[i][2]]

RECURSIVE InsertByKey(_, _)
\* row put after the rows whose timestamp is not greater (a stable sort step)
InsertByKey(rows, row) ==
    IF rows = <<>> THEN <<row>>
    ELSE IF TsLess(row[1], rows[Len(rows)][1])
         THEN InsertByKey(SubSeq(rows, 1, Len(rows) - 1), row) \o <<rows[Len(rows)]>>
         ELSE rows \o <<row>>

RECURSIVE SortByTs(_, _)
\* filtered.sort(key=lambda row: row[0])
SortByTs(rows, n) ==
    IF n = 0 THEN <<>> ELSE InsertByKey(SortByTs(rows, n - 1), rows[n])

\* the rows of the second loop: every product whose name parses
Parseable(rows) ==
    LET Keep(row) == row[1] # None
    IN  SelectSeq(rows, Keep)

\* FallbackPass without the sort
FallbackUnsorted(rows) == Parseable(rows)

\* the second loop and the sort
FallbackPass(rows) == SortByTs(Parseable(rows), Len(Parseable(rows)))

\* Filtered that lists every parsed product whatever the window selected
FilteredAlwaysAll(first, rows) == FallbackPass(rows)

\* if not filtered: the second loop replaces the empty list
Filtered(first, rows) == IF first = <<>> THEN FallbackPass(rows) ELSE first

Header ==
    << "XXXXXX EMPTY LINES XXXXXXXXX",
       "XXXXXX EMPTY LINES XXXXXXXX",
       "YYYYMMDD HHMMSS   name of the file(up to 80 characters)" >>

\* one entry line of the manifest
EntryLine(row) ==
    StrfDate(row[1]) \o " " \o StrfTime(row[1]) \o "      "
        \o LeftAlign(row[2], NameWidth) \o "      ON DISK"

\* the lines of "\n".join([*header, *entries]) + "\n"
ManifestLines(filtered) ==
    Header \o [i \in 1..Len(filtered) |-> EntryLine(filtered[i])]

\* WriteText that appends to the file instead of replacing it
WriteTextAppend(dir, lines) ==
    [n \in DOMAIN dir \cup {AVAILABLE} |->
        IF n = AVAILABLE
        THEN [kind |-> "file",
              content |-> (IF AVAILABLE \in DOMAIN dir THEN dir[AVAILABLE].content ELSE <<>>)
                            \o lines]
        ELSE dir[n]]

\* write_text that overwrites in place and keeps the tail of a longer file
WriteTextInPlace(dir, lines) ==
    [n \in DOMAIN dir \cup {AVAILABLE} |->
        IF n = AVAILABLE
        THEN [kind |-> "file",
              content |-> IF AVAILABLE \in DOMAIN dir
                              /\ Len(dir[AVAILABLE].content) > Len(lines)
                          THEN lines \o SubSeq(dir[AVAILABLE].content, Len(lines) + 1,
                                               Len(dir[AVAILABLE].content))
                          ELSE lines]
        ELSE dir[n]]

\* (product_dir / "AVAILABLE").write_text(...): the file is created or replaced
WriteText(dir, lines) ==
    [n \in DOMAIN dir \cup {AVAILABLE} |->
        IF n = AVAILABLE THEN [kind |-> "file", content |-> lines] ELSE dir[n]]

RECURSIVE Join(_, _)
\* sep.join(names)
Join(names, sep) ==
    IF names = <<>> THEN ""
    ELSE IF Len(names) = 1 THEN names[1]
    ELSE names[1] \o sep \o Join(Tail(names), sep)

Returned(filtered) ==
    [kind |-> "returned", count |-> Len(filtered), filtered |-> filtered,
     message |-> "", unparseable |-> <<>>]

Raised(what, message, unparseable) ==
    [kind |-> what, count |-> 0, filtered |-> <<>>,
     message |-> message, unparseable |-> unparseable]

\* Decide with the two checks in the other order
DecideParseFirst(prefix, products, filtered, unparseable) ==
    IF filtered = <<>>
    THEN Raised("UnableToParse",
                "Unable to parse timestamps for AVAILABLE file from: "
                    \o Join(unparseable, ", "), unparseable)
    ELSE IF products = <<>>
    THEN Raised("NoFilesFound",
                "No " \o prefix \o " files found in " \o ProductDir, <<>>)
    ELSE Returned(filtered)

\* Decide without the check that something was selected
DecideNoEmptyCheck(prefix, products, filtered, unparseable) ==
    IF products = <<>>
    THEN Raised("NoFilesFound",
                "No " \o prefix \o " files found in " \o ProductDir, <<>>)
    ELSE Returned(filtered)

\* what the call does once the lists are built
Decide(prefix, products, filtered, unparseable) ==
    IF products = <<>>
    THEN Raised("NoFilesFound",
                "No " \o prefix \o " files found in " \o ProductDir, <<>>)
    ELSE IF filtered = <<>>
    THEN Raised("UnableToParse",
                "Unable to parse timestamps for AVAILABLE file from: "
                    \o Join(unparseable, ", "), unparseable)
    ELSE Returned(filtered)

\* the lists of the call, from the parsed products
Select(dir, prefix, start, end, products, rows) ==
    Decide(prefix, products,
           Filtered(WindowPass(dir, rows, start, end), rows),
           Unparseable(dir, rows))

\* the outcome of create_available_file(product_dir, start, end, prefix) on dir
Outcome(dir, prefix, start, end) ==
    Select(dir, prefix, start, end, Products(dir, prefix),
           Rows(Products(dir, prefix), prefix))

\* the content of AVAILABLE, <<>> when there is no such file
Available(dir) == IF AVAILABLE \in DOMAIN dir THEN dir[AVAILABLE].content ELSE <<>>

\* Effect that writes the file whatever the outcome
EffectWritesAlways(dir, out) == WriteText(dir, ManifestLines(out.filtered))

\* the directory after a call with this outcome
Effect(dir, out) ==
    IF out.kind = "returned" THEN WriteText(dir, ManifestLines(out.filtered))
    ELSE dir

Call(prefix, w) ==
        /\ last' = [kind |-> "called", prefix |-> prefix, window |-> w,
                    before |-> fs, out |-> Outcome(fs, prefix, w.start, w.end)]
        /\ fs' = Effect(fs, last'.out)
        /\ prev' = IF last.kind = "called" /\ last.prefix = prefix /\ last.window = w
                   THEN [kind |-> "called", out |-> last.out, available |-> Available(fs)]
                   ELSE Idle

CreateAvailableFile(prefix, w) ==
    /\ Call(prefix, w)
    /\ UNCHANGED <<parseIn, parseOut, entry, run>>

(***************************************************************************)
(* The directory's other writer: the extraction step fills the directory   *)
(* between calls.                                                          *)
(***************************************************************************)
Inputs(dir) == DOMAIN dir \ {AVAILABLE}

AddEntry(e) ==
    /\ e.name \notin DOMAIN fs
    /\ Cardinality(Inputs(fs)) < MaxEntries
    /\ fs' = [n \in DOMAIN fs \cup {e.name} |->
                IF n = e.name
                THEN [kind |-> e.kind, content |-> IF e.kind = "file" THEN Grib ELSE <<>>]
                ELSE fs[n]]
    /\ last' = Idle
    /\ prev' = Idle
    /\ UNCHANGED <<parseIn, parseOut, entry, run>>

RemoveEntry(n) ==
    /\ n \in DOMAIN fs
    /\ fs' = [m \in DOMAIN fs \ {n} |-> fs[m]]
    /\ last' = Idle
    /\ prev' = Idle
    /\ UNCHANGED <<parseIn, parseOut, entry, run>>

(***************************************************************************)
(* The parser on its own: _parse applied to one name.  The names are       *)
(* written from calendar timestamps in each of the six layouts.            *)
(***************************************************************************)
FourDigitShapes == {"Ymd", "YmdH", "YmdHM"}
TwoDigitShapes == {"ymd", "ymdH", "ymdHM"}

SampleYears == {1999, 2024}
SampleHours == {0, 12, 23}
SampleMinutes == {0, 30, 59}
SampleMonths == {1, 12}
SampleDays == {1, 9, 10, 28}

\* the timestamp written in a layout; a two-digit layout writes the year's
\* last two digits
Written(ts, shape) ==
    (IF shape \in FourDigitShapes THEN ZeroPad(ts[1], 4) ELSE ZeroPad(ts[1] % 100, 2))
        \o ZeroPad(ts[2], 2) \o ZeroPad(ts[3], 2)
        \o (IF shape \in {"YmdH", "YmdHM", "ymdH", "ymdHM"} THEN ZeroPad(ts[4], 2) ELSE "")
        \o (IF shape \in {"YmdHM", "ymdHM"} THEN ZeroPad(ts[5], 2) ELSE "")

\* the hours and minutes a layout can write
HoursOf(shape) == IF shape \in {"Ymd", "ymd"} THEN {0} ELSE SampleHours
MinutesOf(shape) == IF shape \in {"YmdHM", "ymdHM"} THEN SampleMinutes ELSE {0}

\* every calendar day of the sample years, written in the four-digit layouts
FourDigitInputs ==
    { [suffix |-> Written(<<y, m, d, h, mi>>, shape), shape |-> shape,
       face |-> <<y, m, d, h, mi>>] :
        <<y, m, d, h, mi, shape>> \in
            { t \in SampleYears \X (1..12) \X (1..31) \X SampleHours \X SampleMinutes
                      \X FourDigitShapes :
                /\ t[3] <= DaysInMonth(t[1], t[2])
                /\ t[4] \in HoursOf(t[6])
                /\ t[5] \in MinutesOf(t[6]) } }

\* every two-digit year, written in the two-digit layouts; face[1] is YY
TwoDigitInputs ==
    { [suffix |-> Written(<<yy, m, d, h, mi>>, shape), shape |-> shape,
       face |-> <<yy, m, d, h, mi>>] :
        <<yy, m, d, h, mi, shape>> \in
            { t \in (0..99) \X SampleMonths \X SampleDays \X SampleHours \X SampleMinutes
                      \X TwoDigitShapes :
                /\ t[4] \in HoursOf(t[6])
                /\ t[5] \in MinutesOf(t[6]) } }

ParseInputs == FourDigitInputs \cup TwoDigitInputs

DefaultPrefix == "EC"

NoInput == [suffix |-> "", shape |-> "none", face |-> <<>>]
NotParsed == [done |-> FALSE, ts |-> None, format |-> 0]

\* ts = _parse(item.name) for the file named prefix + suffix
ParseName ==
    /\ parseIn # NoInput
    /\ ~parseOut.done
    /\ parseOut' = [done |-> TRUE,
                    ts |-> _parse(DefaultPrefix, DefaultPrefix \o parseIn.suffix),
                    format |-> FirstFormat(parseIn.suffix)]
    /\ UNCHANGED <<fs, last, prev, parseIn, entry, run>>

(***************************************************************************)
(* The entry formatter on its own: one row (ts, name) of a file the scan   *)
(* accepts, under prefixes of every length up to MaxPrefixLen, and the     *)
(* line written for it.                                                    *)
(***************************************************************************)
MaxPrefixLen == 24

RECURSIVE PrefixOfLen(_)
\* a prefix argument of k characters
PrefixOfLen(k) == IF k <= 2 THEN SubSeq("EC", 1, k) ELSE PrefixOfLen(k - 1) \o "_"

\* suffixes the parser accepts: ten, six, twelve and eight digits, the last two
\* with a year below 1000
EntrySuffixes == {"2024010100", "240101", "202401011230", "09990101", "00010101"}

NoEntry == [done |-> FALSE, prefix |-> "", name |-> "", ts |-> None, line |-> ""]

EntryInputs ==
    { [done |-> FALSE, prefix |-> PrefixOfLen(k), name |-> PrefixOfLen(k) \o x,
       ts |-> None, line |-> ""] : k \in 1..MaxPrefixLen, x \in EntrySuffixes }

\* ts = _parse(item.name), then the entry line of (ts, item.name)
FormatEntry ==
    /\ entry # NoEntry
    /\ ~entry.done
    /\ _parse(entry.prefix, entry.name) # None
    /\ entry' = [entry EXCEPT !.done = TRUE,
                              !.ts = _parse(entry.prefix, entry.name),
                              !.line = EntryLine(<<_parse(entry.prefix, entry.name),
                                                  entry.name>>)]
    /\ UNCHANGED <<fs, last, prev, parseIn, parseOut, run>>

InitEntry ==
    /\ fs = <<>>
    /\ last = Idle
    /\ prev = Idle
    /\ parseIn = NoInput
    /\ parseOut = NotParsed
    /\ entry \in EntryInputs
    /\ run = NotStarted

NextEntry == FormatEntry

SpecEntry == InitEntry /\ [][NextEntry]_vars

(***************************************************************************)
(* The CLI run command (cli.py): the services one after the other, every   *)
(* exception leaving the command.  fs is the directory of preprocessed     *)
(* meteorology, which the flex_extract container fills.                    *)
(***************************************************************************)
MaxProduced == 2

\* what the flex_extract container may leave in its output directory
ContainerOutputs ==
    { [n \in {e.name : e \in es} |->
          LET e == CHOOSE x \in es : x.name = n
          IN  [kind |-> e.kind, content |-> IF e.kind = "file" THEN Grib ELSE <<>>]]
      : es \in {x \in SUBSET Pool : Cardinality(x) <= MaxProduced} }

\* subprocess.run(command, timeout=...): the process ends or the timeout expires
ProcessResults ==
    { [ran |-> TRUE, timeout |-> FALSE, returncode |-> 0],
      [ran |-> TRUE, timeout |-> FALSE, returncode |-> 1],
      [ran |-> TRUE, timeout |-> TRUE, returncode |-> 0] }

\* docker images -q: the image is there, is not, or the command fails
ImageStates == {"present", "missing", "error"}

\* the credential files given: one that exists, one that does not, none
CredentialStates == {"ok", "notfound", "none"}

\* what prepare meets: nothing, a failing docker run --entrypoint /bin/cat,
\* a file that cannot be written
BuilderResults == {"ok", "CalledProcessError", "OSError"}

\* DockerRunner._run that ignores the exit code
_runUnchecked(result) ==
    IF result.timeout THEN "TimeoutExpired" ELSE "none"

\* DockerRunner._run: the exception it leaves with, or none
_run(result) ==
    IF result.timeout THEN "TimeoutExpired"
    ELSE IF result.returncode # 0 THEN "DockerError"
    ELSE "none"

\* DockerRunner.images followed by the caller's test
ImageCheck(image) ==
    IF image = "present" THEN "none" ELSE "DockerError"

\* FlexExtractService._credential_env
_credential_env(cred) ==
    IF cred = "notfound" THEN "FileNotFoundError"
    ELSE IF cred = "none" THEN "RuntimeError"
    ELSE "none"

Start(r, stage) == [r EXCEPT !.started = Append(@, stage)]

Finish(r, stage, pc) == [r EXCEPT !.finished = Append(@, stage), !.pc = pc]

\* an exception leaves the run command: nothing after it is executed
Fail(r, stage, error) ==
    [r EXCEPT !.pc = "failed", !.error = error, !.failedAt = stage]

\* cli.py 84-89: the services are built; era5 decides whether flex_extract runs
Invoke(era5, w) ==
    /\ run.pc = "idle"
    /\ run' = [run EXCEPT !.pc = IF era5 THEN "flex_extract" ELSE "prepare",
                          !.era5 = era5, !.window = w]
    /\ UNCHANGED <<fs, last, prev, parseIn, parseOut, entry>>

\* FlexExtractService.run up to the container
FlexExtractCheck(image, cred) ==
    /\ run.pc = "flex_extract"
    /\ run.era5
    /\ run' = IF ImageCheck(image) # "none"
              THEN Fail(Start(run, "flex_extract"), "flex_extract", ImageCheck(image))
              ELSE IF _credential_env(cred) # "none"
              THEN Fail(Start(run, "flex_extract"), "flex_extract", _credential_env(cred))
              ELSE [Start(run, "flex_extract") EXCEPT !.pc = "extract_container"]
    /\ UNCHANGED <<fs, last, prev, parseIn, parseOut, entry>>

\* self._docker.run(args, ...): the container writes its output directory
FlexExtractContainer(result, output) ==
    /\ run.pc = "extract_container"
    /\ fs' = output
    /\ run' = IF _run(result) # "none"
              THEN Fail([run EXCEPT !.extract = result], "flex_extract", _run(result))
              ELSE [run EXCEPT !.extract = result, !.pc = "available"]
    /\ last' = Idle
    /\ prev' = Idle
    /\ UNCHANGED <<parseIn, parseOut, entry>>

\* FlexExtractService.run after the container: no EC files is an error
FlexExtractNoFiles ==
    /\ run.pc = "available"
    /\ Products(fs, DefaultPrefix) = <<>>
    /\ run' = Fail(run, "flex_extract", "RuntimeError")
    /\ UNCHANGED <<fs, last, prev, parseIn, parseOut, entry>>

\* count = create_available_file(output_dir, window.start, window.end)
FlexExtractAvailable ==
    /\ run.pc = "available"
    /\ Products(fs, DefaultPrefix) # <<>>
    /\ Call(DefaultPrefix, run.window)
    /\ run' = IF last'.out.kind = "returned"
              THEN Finish(run, "flex_extract", "prepare")
              ELSE Fail(run, "flex_extract", "MeteoError")
    /\ UNCHANGED <<parseIn, parseOut, entry>>

\* input_builder.prepare(runtime)
Prepare(result) ==
    /\ run.pc = "prepare"
    /\ run' = IF result = "ok"
              THEN Finish([Start(run, "prepare") EXCEPT !.builder = "ok",
                                                        !.pathnames = TRUE],
                          "prepare", "flexpart")
              ELSE Fail([Start(run, "prepare") EXCEPT !.builder = result],
                        "prepare", result)
    /\ UNCHANGED <<fs, last, prev, parseIn, parseOut, entry>>

\* FlexpartSimulationRunner.run up to the container
FlexpartCheck(image) ==
    /\ run.pc = "flexpart"
    /\ run' = IF ImageCheck(image) # "none"
              THEN Fail(Start(run, "flexpart"), "flexpart", ImageCheck(image))
              ELSE IF ~run.pathnames
              THEN Fail(Start(run, "flexpart"), "flexpart", "FileNotFoundError")
              ELSE [Start(run, "flexpart") EXCEPT !.pc = "flexpart_container"]
    /\ UNCHANGED <<fs, last, prev, parseIn, parseOut, entry>>

\* self._docker.run([cfg.flexpart_image], ...): the model writes totals.nc or not
FlexpartContainer(result, totals) ==
    /\ run.pc = "flexpart_container"
    /\ run' = IF _run(result) # "none"
              THEN Fail([run EXCEPT !.flexpart = result, !.totals = totals],
                        "flexpart", _run(result))
              ELSE Finish([run EXCEPT !.flexpart = result, !.totals = totals],
                          "flexpart", "validate")
    /\ UNCHANGED <<fs, last, prev, parseIn, parseOut, entry>>

\* validator.validate(output_dir)
Validate ==
    /\ run.pc = "validate"
    /\ run' = IF run.totals
              THEN Finish(Start(run, "validate"), "validate", "complete")
              ELSE Fail(Start(run, "validate"), "validate", "FileNotFoundError")
    /\ UNCHANGED <<fs, last, prev, parseIn, parseOut, entry>>

\* console.print("FLEXPART run complete. ...")
Complete ==
    /\ run.pc = "complete"
    /\ run' = [run EXCEPT !.message = TRUE, !.pc = "done"]
    /\ UNCHANGED <<fs, last, prev, parseIn, parseOut, entry>>

InitCli ==
    /\ fs = <<>>
    /\ last = Idle
    /\ prev = Idle
    /\ parseIn = NoInput
    /\ parseOut = NotParsed
    /\ entry = NoEntry
    /\ run = NotStarted

NextCli ==
    \/ \E era5 \in BOOLEAN, w \in Windows : Invoke(era5, w)
    \/ \E image \in ImageStates, cred \in CredentialStates : FlexExtractCheck(image, cred)
    \/ \E result \in ProcessResults, output \in ContainerOutputs :
            FlexExtractContainer(result, output)
    \/ FlexExtractNoFiles
    \/ FlexExtractAvailable
    \/ \E result \in BuilderResults : Prepare(result)
    \/ \E image \in ImageStates : FlexpartCheck(image)
    \/ \E result \in ProcessResults, totals \in BOOLEAN : FlexpartContainer(result, totals)
    \/ Validate
    \/ Complete

SpecCli == InitCli /\ [][NextCli]_vars

InitParse ==
    /\ fs = <<>>
    /\ last = Idle
    /\ prev = Idle
    /\ parseIn \in ParseInputs
    /\ parseOut = NotParsed
    /\ entry = NoEntry
    /\ run = NotStarted

NextParse == ParseName

SpecParse == InitParse /\ [][NextParse]_vars

Init ==
    /\ fs = <<>>
    /\ last = Idle
    /\ prev = Idle
    /\ parseIn = NoInput
    /\ parseOut = NotParsed
    /\ entry = NoEntry
    /\ run = NotStarted

Next ==
    \/ \E e \in Pool : AddEntry(e)
    \/ \E n \in DOMAIN fs : RemoveEntry(n)
    \/ \E p \in Prefixes, w \in Windows : CreateAvailableFile(p, w)

Spec == Init /\ [][Next]_vars

(***************************************************************************)
(* Properties of create_available_file (under Spec).  They speak of the    *)
(* call just made: its arguments and outcome are in last, the directory    *)
(* it left is fs.                                                          *)
(***************************************************************************)
Called == last.kind = "called"
Ok == Called /\ last.out.kind = "returned"

\* the (ts, name) rows written, and their names
Listed == last.out.filtered
ListedNames == {Listed[i][2] : i \in 1..Len(Listed)}

\* the entries the call's pattern matches; the manifest is no input
Matching == {n \in DOMAIN fs : StartsWith(n, last.prefix)}
MatchingInputs == Matching \ {AVAILABLE}
MatchingFiles == {n \in Matching : fs[n].kind = "file"}
InputFiles == {n \in MatchingInputs : fs[n].kind = "file"}

ParsedAs(n) == ParsedName[<<last.prefix, n>>]

\* inside [start_time, end_time], both ends included
Inside(ts) == TsLeq(last.window.start, ts) /\ TsLeq(ts, last.window.end)

ParsedFiles == {n \in MatchingFiles : ParsedAs(n) # None}
InWindowFiles == {n \in ParsedFiles : Inside(ParsedAs(n))}
ParsedDirs == {n \in Matching : fs[n].kind = "dir" /\ ParsedAs(n) # None}

Ascending(rows) ==
    \A i, j \in 1..Len(rows) : i < j => TsLeq(rows[i][1], rows[j][1])

\* each row carries the timestamp _parse gives for its name, no name twice
WellFormed(rows) ==
    /\ \A i \in 1..Len(rows) : rows[i][1] = ParsedAs(rows[i][2])
    /\ \A i, j \in 1..Len(rows) : i # j => rows[i][2] # rows[j][2]

\* C1: after every successful call the entry lines of the manifest are in
\* ascending timestamp order, on the window path as on the fallback path.
C1_AscendingEntries == Ok => Ascending(Listed)

\* C2: when some matching file parses inside the window, the manifest holds
\* exactly the parsed files with start_time <= ts <= end_time; unparseable
\* names do not make the call fail.
C2_WindowExact ==
    (Called /\ InWindowFiles # {}) =>
        /\ Ok
        /\ ListedNames = InWindowFiles
        /\ WellFormed(Listed)

C2_Witness ==
    /\ Ok
    /\ InWindowFiles # {}
    /\ \E n \in ParsedFiles : ~Inside(ParsedAs(n))
    /\ \E n \in MatchingFiles : ParsedAs(n) = None
    /\ \E n \in InWindowFiles : ParsedAs(n) = last.window.end

\* C3: when no parsed file is inside the window but some matching file
\* parses, the call succeeds and the manifest holds every parsed file, in
\* ascending timestamp order.
C3_Fallback ==
    (Called /\ InWindowFiles = {} /\ ParsedFiles # {}) =>
        /\ Ok
        /\ ParsedFiles \subseteq ListedNames
        /\ WellFormed(Listed)
        /\ Ascending(Listed)

C3_Witness ==
    /\ Ok
    /\ InWindowFiles = {}
    /\ Cardinality(ParsedFiles) >= 2
    /\ \E i, j \in 1..Len(Listed) :
            i < j /\ NameRank[Listed[i][2]] > NameRank[Listed[j][2]]

\* every matching input is a file, there is one, and every one parses
AllFilesParse == InputFiles # {} /\ \A n \in InputFiles : ParsedAs(n) # None

\* C4 as stated: when every file parses, the manifest has as many entries as
\* there are input files, whatever the window.
C4_AsManyAsInputs ==
    (Called /\ AllFilesParse) =>
        /\ Ok
        /\ Len(Listed) = Cardinality(InputFiles)
        /\ WellFormed(Listed)

\* C4 amended: when every file parses, the manifest holds exactly the files
\* inside the window when there is one, and otherwise every input file (and
\* every matching directory whose name parses); each entry carries the
\* timestamp _parse gives for its name.
C4_WindowOrAll ==
    (Called /\ AllFilesParse) =>
        /\ Ok
        /\ ListedNames = (IF InWindowFiles # {} THEN InWindowFiles
                          ELSE InputFiles \cup ParsedDirs)
        /\ WellFormed(Listed)

C4_Witness ==
    /\ Ok
    /\ AllFilesParse
    /\ InWindowFiles # {}
    /\ Len(Listed) < Cardinality(InputFiles)

NoneParses == Matching # {} /\ \A n \in Matching : ParsedAs(n) = None

ErrorNames == {last.out.unparseable[i] : i \in 1..Len(last.out.unparseable)}

\* C5 as stated: when there are matching entries and none parses, the call
\* fails with an error that names every matching entry and no other name.
C5_EveryMatchingName ==
    (Called /\ NoneParses) =>
        /\ last.out.kind = "UnableToParse"
        /\ ErrorNames = Matching

\* C5 amended: when there are matching entries and none parses, the call
\* fails with an error whose message lists exactly the matching regular
\* files, each once; a matching directory is not named.
C5_EveryRegularFile ==
    (Called /\ NoneParses) =>
        /\ last.out.kind = "UnableToParse"
        /\ ErrorNames = MatchingFiles
        /\ Len(last.out.unparseable) = Cardinality(MatchingFiles)
        /\ last.out.message =
                "Unable to parse timestamps for AVAILABLE file from: "
                    \o Join(last.out.unparseable, ", ")

C5_Witness ==
    /\ Called
    /\ NoneParses
    /\ last.out.kind = "UnableToParse"
    /\ Cardinality(MatchingFiles) >= 2
    /\ MatchingFiles # Matching

\* C6: the call fails with the 'no files' error, naming the prefix and the
\* directory, exactly when no entry starts with the prefix; the
\* all-unparseable error is a different outcome and only arises when some
\* entry matches.
C6_NoMatchingFiles ==
    Called =>
        /\ (Matching = {}) <=> (last.out.kind = "NoFilesFound")
        /\ last.out.kind = "NoFilesFound" =>
                last.out.message = "No " \o last.prefix \o " files found in " \o ProductDir
        /\ last.out.kind = "UnableToParse" =>
                /\ Matching # {}
                /\ last.out.message # "No " \o last.prefix \o " files found in " \o ProductDir

C6_Witness ==
    /\ Called
    /\ last.out.kind = "NoFilesFound"
    /\ Matching = {}
    /\ DOMAIN fs # {}

\* C9: a written AVAILABLE is the three header lines followed by N >= 1
\* entry lines, N being the value returned; a file with the header only is
\* never written, the call fails instead.
C9_HeaderAndEntries ==
    /\ AVAILABLE \in DOMAIN fs =>
            /\ Len(fs[AVAILABLE].content) > Len(Header)
            /\ SubSeq(fs[AVAILABLE].content, 1, Len(Header)) = Header
    /\ Ok =>
            /\ last.out.count >= 1
            /\ Len(fs[AVAILABLE].content) = Len(Header) + last.out.count
            /\ \A i \in 1..last.out.count :
                    fs[AVAILABLE].content[Len(Header) + i] = EntryLine(Listed[i])
    /\ (Called /\ ~Ok) => last.out.count = 0

C9_Witness ==
    /\ Ok
    /\ last.out.count >= 2
    /\ Len(fs[AVAILABLE].content) = 3 + last.out.count

\* C10: a second call with the same prefix and window on the directory the
\* first call left returns what the first returned and leaves AVAILABLE as
\* the first left it.
C10_Idempotent ==
    prev.kind = "called" =>
        /\ Called
        /\ last.out = prev.out
        /\ Available(fs) = prev.available

C10_Witness ==
    /\ prev.kind = "called"
    /\ prev.available # <<>>
    /\ Ok
    /\ last.prefix = "A"
    /\ AVAILABLE \in Matching
    /\ last.out.count >= 1

\* the entries of a directory other than the manifest
Others(dir) == [n \in DOMAIN dir \ {AVAILABLE} |-> dir[n]]

\* C11: a call writes no entry but AVAILABLE: every other entry has the name,
\* kind and content it had before the call, and a successful call leaves in
\* AVAILABLE the new manifest alone, whatever the file held before.
C11_OnlyAvailableWritten ==
    Called =>
        /\ Others(fs) = Others(last.before)
        /\ Ok =>
            /\ AVAILABLE \in DOMAIN fs
            /\ fs[AVAILABLE].kind = "file"
            /\ fs[AVAILABLE].content =
                    Header \o [i \in 1..Len(Listed) |-> EntryLine(Listed[i])]

C11_Witness ==
    /\ Ok
    /\ AVAILABLE \in DOMAIN last.before
    /\ last.before[AVAILABLE].content # fs[AVAILABLE].content
    /\ Len(last.before[AVAILABLE].content) > Len(fs[AVAILABLE].content)
    /\ \E n \in DOMAIN Others(fs) : fs[n].kind = "dir"
    /\ \E n \in DOMAIN Others(fs) : fs[n].kind = "file" /\ n \notin ListedNames

\* C15: a call that fails writes nothing: an AVAILABLE that was there keeps
\* its content, and none is created when there was none.
C15_FailureWritesNothing ==
    (Called /\ ~Ok) => fs = last.before

C15_Witness ==
    /\ Called
    /\ last.out.kind = "UnableToParse"
    /\ AVAILABLE \in DOMAIN fs
    /\ Len(fs[AVAILABLE].content) > Len(Header)

C15_WitnessNoFile ==
    /\ Called
    /\ last.out.kind = "NoFilesFound"
    /\ AVAILABLE \notin DOMAIN fs
    /\ DOMAIN fs # {}

\* C14: every entry of a written manifest names a regular file of the scanned
\* directory whose name starts with the prefix, each file at most once; a
\* directory is never listed, on the window path or on the fallback path.
C14_OnlyRegularFiles ==
    Ok =>
        /\ \A i \in 1..Len(Listed) :
            /\ Listed[i][2] \in DOMAIN last.before
            /\ last.before[Listed[i][2]].kind = "file"
            /\ StartsWith(Listed[i][2], last.prefix)
        /\ \A i, j \in 1..Len(Listed) : Listed[i][2] = Listed[j][2] => i = j

(***************************************************************************)
(* Properties of the entry line, checked under SpecEntry                   *)
(***************************************************************************)
Separator == "      "
OnDisk == "ON DISK"

\* the columns date(8) space time(6) separator(6) name(30) separator(6) ON DISK
LineLength == 8 + 1 + 6 + Len(Separator) + NameWidth + Len(Separator) + Len(OnDisk)

\* the name as a field of exactly NameWidth characters
NameField(name) ==
    IF Len(name) >= NameWidth THEN SubSeq(name, 1, NameWidth)
    ELSE name \o Spaces(NameWidth - Len(name))

\* the line has the date, the time and what follows them at the given columns
LaidOutAt(line, dateLen, nameLen) ==
    /\ DigitsAt(line, 1, dateLen)
    /\ CharAt(line, dateLen + 1) = " "
    /\ DigitsAt(line, dateLen + 2, 6)
    /\ SubSeq(line, dateLen + 8, dateLen + 13) = Separator
    /\ SubSeq(line, dateLen + 14 + nameLen, dateLen + 19 + nameLen) = Separator
    /\ SubSeq(line, dateLen + 20 + nameLen, Len(line)) = OnDisk

\* C12: every entry line has the same columns: 8-digit date, a space, 6-digit
\* time, a separator, the name as a field of exactly 30 characters (padded or
\* cut), a separator, ON DISK; so every line has the same length.
C12_FixedLayout ==
    entry.done =>
        /\ Len(entry.line) = LineLength
        /\ LaidOutAt(entry.line, 8, NameWidth)
        /\ SubSeq(entry.line, 22, 21 + NameWidth) = NameField(entry.name)

\* C12 amended: the name is written whole, filled with spaces up to 30
\* characters and never cut, so the name field is max(30, length of the name)
\* characters wide; the date has 8 digits for years of four digits.  Lines
\* have the fixed length exactly for names of at most 30 characters.
C12_PaddedNeverCut ==
    entry.done =>
        LET dateLen == Len(Str(entry.ts[1])) + 4
            nameLen == IF Len(entry.name) > NameWidth THEN Len(entry.name) ELSE NameWidth
        IN  /\ entry.ts[1] >= 1000 => dateLen = 8
            /\ Len(entry.line) = dateLen + 1 + 6 + 6 + nameLen + 6 + 7
            /\ LaidOutAt(entry.line, dateLen, nameLen)
            /\ SubSeq(entry.line, dateLen + 14, dateLen + 13 + Len(entry.name)) = entry.name
            /\ SubSeq(entry.line, dateLen + 14 + Len(entry.name), dateLen + 13 + nameLen)
                    = Spaces(nameLen - Len(entry.name))
            /\ (entry.ts[1] >= 1000 /\ Len(entry.name) <= NameWidth)
                    => Len(entry.line) = LineLength

C12_Witness ==
    /\ entry.done
    /\ Len(entry.name) > NameWidth
    /\ entry.ts[1] >= 1000
    /\ Len(entry.line) > LineLength

C12_WitnessShort ==
    /\ entry.done
    /\ Len(entry.name) < NameWidth
    /\ entry.ts[1] >= 1000
    /\ Len(entry.line) = LineLength

(***************************************************************************)
(* Properties of the run command, checked under SpecCli                    *)
(***************************************************************************)
\* the stages in the order of the command
StageOrder(era5) ==
    IF era5 THEN <<"flex_extract", "prepare", "flexpart", "validate">>
    ELSE <<"prepare", "flexpart", "validate">>

\* the container ran to the end and left with exit code 0
ExitedZero(result) == result.ran /\ ~result.timeout /\ result.returncode = 0

\* the container ran and did not leave with exit code 0
ExitedNonZero(result) == result.ran /\ (result.timeout \/ result.returncode # 0)

IsPrefix(s, t) == Len(s) <= Len(t) /\ s = SubSeq(t, 1, Len(s))

Has(seq, stage) == \E i \in 1..Len(seq) : seq[i] = stage

\* C13: the stages start in the fixed order (flex_extract with the AVAILABLE
\* file only with era5, then preparation, FLEXPART, validation), each only
\* after every earlier one finished without error; a failing container, a
\* flex_extract run without EC files, a builder error or a missing totals.nc
\* stops the run; the completion message comes only after validation.
C13_StagesInOrder ==
    /\ IsPrefix(run.started, StageOrder(run.era5))
    /\ IsPrefix(run.finished, run.started)
    /\ Len(run.started) <= Len(run.finished) + 1
    /\ run.error # "none" =>
            /\ run.pc = "failed"
            /\ ~run.message
            /\ run.started # <<>>
            /\ run.started[Len(run.started)] = run.failedAt
            /\ ~Has(run.finished, run.failedAt)
    /\ ExitedNonZero(run.extract) => ~Has(run.started, "prepare")
    /\ (run.era5 /\ Has(run.started, "prepare")) =>
            /\ ExitedZero(run.extract)
            /\ Products(fs, DefaultPrefix) # <<>>
            /\ Ok
            /\ AVAILABLE \in DOMAIN fs
    /\ run.builder \notin {"notrun", "ok"} => ~Has(run.started, "flexpart")
    /\ Has(run.started, "flexpart") => run.builder = "ok"
    /\ ExitedNonZero(run.flexpart) => ~Has(run.started, "validate")
    /\ Has(run.started, "validate") => ExitedZero(run.flexpart)
    /\ (Has(run.started, "validate") /\ ~run.totals) => ~run.message
    /\ run.message =>
            /\ run.pc = "done"
            /\ run.finished = StageOrder(run.era5)
            /\ run.totals

C13_Witness ==
    /\ run.pc = "done"
    /\ run.era5
    /\ run.message
    /\ Ok
    /\ Len(Listed) > 1

C13_WitnessNoEra5 ==
    /\ run.pc = "done"
    /\ ~run.era5
    /\ run.message
    /\ run.started = <<"prepare", "flexpart", "validate">>

C13_WitnessStopped ==
    /\ run.pc = "failed"
    /\ ExitedNonZero(run.flexpart)
    /\ run.error = "DockerError"
    /\ run.totals
    /\ run.finished = <<"flex_extract", "prepare">>

(***************************************************************************)
(* Properties of the parser (under SpecParse)                              *)
(***************************************************************************)
\* the two digits a two-digit-year name starts with
WrittenYY == IntAt(parseIn.suffix, 1, 2)

\* C7: a name parsed by one of the two-digit-year formats gets the year 20YY
\* when YY is in 00..49 and 19YY when YY is in 50..99, so never a year
\* outside 1950..2049.
C7_PivotAt1950 ==
    (parseOut.done /\ parseOut.format \in 4..6) =>
        /\ parseOut.ts[1] = (IF WrittenYY <= 49 THEN 2000 + WrittenYY ELSE 1900 + WrittenYY)
        /\ parseOut.ts[1] \in 1950..2049

\* C8: a suffix written as a four-digit-year timestamp (YYYYMMDD, YYYYMMDDHH,
\* YYYYMMDDHHMM) of a valid calendar date parses to that date and time.
C8_FaceValue ==
    (parseOut.done /\ parseIn.shape \in FourDigitShapes) =>
        parseOut.ts = parseIn.face

====
